---- MODULE Spec2Model ----
(***************************************************************************)
(* Quick Environment Switcher (envswitch.py): the profile store kept in    *)
(* environments.json, the bounded switch history kept in history.json and  *)
(* the switch-command generator.                                           *)
(*                                                                         *)
(* Strings are sequences of one-character strings, so that str.lower()     *)
(* and substring search are computed character by character.  A literal    *)
(* piece of a generated shell line is kept as one chunk.                   *)
(* Optional values (Python None) are None == <<>> and Some(x) == <<x>>.    *)
(***************************************************************************)
EXTENDS Integers, Sequences, FiniteSets, TLC

VARIABLES
    envsFile,   \* environments.json: "missing", "ok" or "corrupt"
    histFile,   \* history.json: "missing", "ok" or "corrupt"
    envs,       \* data["environments"]: the stored profiles, in file order
    history,    \* history["switches"]: the stored switch log, oldest first
    clock,      \* the last value datetime.now() returned
    platform,   \* sys.platform
    ret,        \* the last call: its name, arguments and result
    logged,     \* ghost: every entry log_switch ever wrote, in order
    uses,       \* ghost: per case-folded name, the successful switches since it was added
    everDeleted, \* ghost: delete_environment has removed a profile
    proc        \* the invocations in progress when two processes share the files

vars == <<envsFile, histFile, envs, history, clock, platform, ret, logged, uses,
          everDeleted, proc>>

----------------------------------------------------------------------------
(* Bounds of the model *)

MaxClock == 4
MaxLimit == 2
MaxLogged == 150
MaxRaceClock == 5

(* Program constants *)

HistoryCap == 100

----------------------------------------------------------------------------
(* Values *)

None == <<>>
Some(x) == <<x>>

Names == { <<"a", "b">>, <<"A", "B">>, <<"b">> }

Cwd == <<"/", "w">>

\* The remaining arguments of add_environment, drawn from a small set.
AddInputs ==
    { [project_path |-> <<"/", "p">>, python_env |-> None, node_version |-> None,
       env_vars |-> None, shell_commands |-> None, description |-> <<>>],
      [project_path |-> <<"q">>, python_env |-> Some(<<"/", "v">>),
       node_version |-> Some(<<"1", "8">>),
       env_vars |-> Some(<< <<(<<"K">>), (<<"x">>)>>, <<(<<"J">>), (<<"y">>)>> >>),
       shell_commands |-> Some(<< <<"e", " ", "B">> >>),
       description |-> <<"A", "x">>] }

\* The profile of the switch-command runs: its name as added and as typed later
Demo == <<"d", "e", "m", "o">>

PlanNames == { Demo, <<"D", "E", "M", "O">> }

\* The arguments of add_environment the generator's sections depend on
PlanInputs ==
    [project_path : { <<"/", "t", "m", "p", "/", "d", "e", "m", "o">>, <<"q">> },
     python_env : { None, Some(<<>>), Some(<<"/", "v">>) },
     node_version : { None },
     env_vars : { None, Some(<<>>),
                  Some(<< <<(<<"D", "E", "B", "U", "G">>), (<<"t", "r", "u", "e">>)>> >>),
                  Some(<< <<(<<"K">>), (<<"x">>)>>, <<(<<"J">>), (<<"y">>)>> >>) },
     shell_commands : { None,
                        Some(<< <<"e", "c", "h", "o", " ", "h", "i">> >>),
                        Some(<< <<"l", "s">>, <<"e", " ", "B">> >>) },
     description : { <<>> }]

\* Every answer of Path.exists() for the directory and the three scripts
PlanFsStates ==
    [dir : BOOLEAN, bat : BOOLEAN, ps1 : BOOLEAN, activate : BOOLEAN]

\* The search argument of list_environments: absent, empty, or a string
Searches ==
    { None, Some(<<>>), Some(<<"A">>), Some(<<"P">>), Some(<<"x">>), Some(<<"b", "a">>) }

\* What Path.exists() answers for the directory and the activation scripts.
FsStates ==
    { [dir |-> FALSE, bat |-> FALSE, ps1 |-> FALSE, activate |-> FALSE],
      [dir |-> TRUE, bat |-> FALSE, ps1 |-> FALSE, activate |-> FALSE],
      [dir |-> TRUE, bat |-> FALSE, ps1 |-> TRUE, activate |-> FALSE],
      [dir |-> TRUE, bat |-> TRUE, ps1 |-> TRUE, activate |-> TRUE] }

----------------------------------------------------------------------------
(* Pure helpers *)

\* str.lower() on one character of the alphabet in use
LowerChar(c) ==
    CASE c = "A" -> "a"
      [] c = "B" -> "b"
      [] c = "K" -> "k"
      [] c = "J" -> "j"
      [] c = "P" -> "p"
      [] c = "D" -> "d"
      [] c = "E" -> "e"
      [] c = "M" -> "m"
      [] c = "O" -> "o"
      [] OTHER -> c

\* str.lower()
Lower(s) == [i \in 1..Len(s) |-> LowerChar(s[i])]

LowerNames == { Lower(n) : n \in Names \cup PlanNames }

\* Python's s[start:]
SliceFrom(s, start) ==
    LET n == Len(s)
        lo == IF start < 0
              THEN (IF n + start < 0 THEN 0 ELSE n + start)
              ELSE (IF start > n THEN n ELSE start)
    IN SubSeq(s, lo + 1, n)

\* x or default, for an optional collection
OrEmpty(opt) == IF opt = None THEN <<>> ELSE opt[1]

\* str(Path(p).resolve()): a relative path is taken against the working directory
Resolve(p) ==
    IF p = <<>> THEN Cwd
    ELSE IF p[1] = "/" THEN p
    ELSE Cwd \o <<"/">> \o p

\* variant: the names compared as written
FindIndexExact(es, name) ==
    IF \E i \in 1..Len(es) : es[i].name = name
    THEN CHOOSE i \in 1..Len(es) :
            /\ es[i].name = name
            /\ \A j \in 1..(i - 1) : es[j].name # name
    ELSE 0

\* variant: the loop index used after a loop that found nothing
FindIndexOrLast(es, name) ==
    IF \E i \in 1..Len(es) : Lower(es[i].name) = Lower(name)
    THEN CHOOSE i \in 1..Len(es) :
            /\ Lower(es[i].name) = Lower(name)
            /\ \A j \in 1..(i - 1) : Lower(es[j].name) # Lower(name)
    ELSE Len(es)

\* the loop "for env in data['environments']: if env['name'].lower() == name.lower()":
\* the index of the first match, 0 when there is none
FindIndex(es, name) ==
    IF \E i \in 1..Len(es) : Lower(es[i].name) = Lower(name)
    THEN CHOOSE i \in 1..Len(es) :
            /\ Lower(es[i].name) = Lower(name)
            /\ \A j \in 1..(i - 1) : Lower(es[j].name) # Lower(name)
    ELSE 0

\* variant: data["environments"].pop()
RemoveLast(es, i) == SubSeq(es, 1, Len(es) - 1)

\* del data["environments"][i]
RemoveAt(es, i) == SubSeq(es, 1, i - 1) \o SubSeq(es, i + 1, Len(es))

\* init_config on one file: a missing file is created empty, an existing one is left alone
InitFile(f) == IF f = "missing" THEN "ok" ELSE f

\* variant: the empty document written without looking for the file
InitContentAlways(f, content) == <<>>

\* init_config on one file's content: the empty list for a missing file
InitContent(f, content) == IF f = "missing" THEN <<>> ELSE content

\* load_environments calls init_config when environments.json is missing,
\* which also creates a missing history.json
HistFileAfterLoad == IF envsFile = "missing" THEN InitFile(histFile) ELSE histFile

----------------------------------------------------------------------------
(* The store's transformations *)

\* variant: the name stored case-folded
NewEnvironmentFolded(name, inp, t) ==
    [name |-> Lower(name),
     project_path |-> Resolve(inp.project_path),
     python_env |-> inp.python_env,
     node_version |-> inp.node_version,
     env_vars |-> OrEmpty(inp.env_vars),
     shell_commands |-> OrEmpty(inp.shell_commands),
     description |-> inp.description,
     created |-> t,
     last_used |-> None,
     use_count |-> 0]

\* the dict add_environment builds for a new profile
NewEnvironment(name, inp, t) ==
    [name |-> name,
     project_path |-> Resolve(inp.project_path),
     python_env |-> inp.python_env,
     node_version |-> inp.node_version,
     env_vars |-> OrEmpty(inp.env_vars),
     shell_commands |-> OrEmpty(inp.shell_commands),
     description |-> inp.description,
     created |-> t,
     last_used |-> None,
     use_count |-> 0]

\* variant: use_count = 1 instead of use_count += 1
UpdateUsageSetOne(es, name, t) ==
    LET i == FindIndex(es, name)
    IN IF i = 0 THEN es
       ELSE [es EXCEPT ![i] = [@ EXCEPT !.last_used = Some(t),
                                        !.use_count = 1]]

\* variant: the creation time stamped along with last_used
UpdateUsageTouch(es, name, t) ==
    LET i == FindIndex(es, name)
    IN IF i = 0 THEN es
       ELSE [es EXCEPT ![i] = [@ EXCEPT !.last_used = Some(t),
                                        !.created = t,
                                        !.use_count = @ + 1]]

\* variant: the counter raised without the time being stored
UpdateUsageNoStamp(es, name, t) ==
    LET i == FindIndex(es, name)
    IN IF i = 0 THEN es
       ELSE [es EXCEPT ![i] = [@ EXCEPT !.use_count = @ + 1]]

\* the usage-statistics loop of switch_environment: the first case-insensitive
\* match gets last_used and use_count updated, then the loop breaks
UpdateUsage(es, name, t) ==
    LET i == FindIndex(es, name)
    IN IF i = 0 THEN es
       ELSE [es EXCEPT ![i] = [@ EXCEPT !.last_used = Some(t),
                                        !.use_count = @ + 1]]

\* variant: history["switches"][:100]
AppendSwitchKeepFirst(h, name, t) ==
    LET all == Append(h, [environment |-> name, timestamp |-> t])
    IN SubSeq(all, 1, IF Len(all) > HistoryCap THEN HistoryCap ELSE Len(all))

\* log_switch's append followed by history["switches"][-100:]
AppendSwitch(h, name, t) ==
    SliceFrom(Append(h, [environment |-> name, timestamp |-> t]), 0 - HistoryCap)

\* Python's "x in s" on strings
Contains(s, x) ==
    \E i \in 0..(Len(s) - Len(x)) : SubSeq(s, i + 1, i + Len(x)) = x

\* variant: the search string compared as typed
ListedAsTyped(e, search) ==
    \/ Contains(Lower(e.name), search)
    \/ Contains(Lower(e.description), search)
    \/ Contains(Lower(e.project_path), search)

\* the condition of list_environments' comprehension
Listed(e, search) ==
    \/ Contains(Lower(e.name), Lower(search))
    \/ Contains(Lower(e.description), Lower(search))
    \/ Contains(Lower(e.project_path), Lower(search))

\* what list_environments returns: "if search" is false for None and for ""
ListFilter(es, search) ==
    IF search = None \/ search = Some(<<>>) THEN es
    ELSE SelectSeq(es, LAMBDA e : Listed(e, search[1]))

\* get_history's history["switches"][-limit:]
HistoryTail(h, limit) == SliceFrom(h, 0 - limit)

----------------------------------------------------------------------------
(* The switch-command generator *)

ActivateComment == <<"# Activate Python environment">>
EnvVarsComment == <<"# Set environment variables">>
CustomComment == <<"# Custom commands">>

\* variant: the script named without looking for it
ActivateLinesUnchecked(env, plat, fs) ==
    IF env.python_env = None \/ env.python_env = Some(<<>>) THEN <<>>
    ELSE IF ~fs.dir THEN <<>>
    ELSE LET p == env.python_env[1]
         IN IF plat = "win32"
            THEN <<ActivateComment, p \o <<"\\Scripts\\activate.bat">> >>
            ELSE <<ActivateComment, <<"source ">> \o p \o <<"/bin/activate">> >>

\* the activation section: nothing unless the directory and the script exist
ActivateLines(env, plat, fs) ==
    IF env.python_env = None \/ env.python_env = Some(<<>>) THEN <<>>
    ELSE IF ~fs.dir THEN <<>>
    ELSE LET p == env.python_env[1]
         IN IF plat = "win32"
            THEN LET script == IF fs.bat THEN p \o <<"\\Scripts\\activate.bat">>
                                         ELSE p \o <<"\\Scripts\\Activate.ps1">>
                     exists == IF fs.bat THEN TRUE ELSE fs.ps1
                 IN IF exists THEN <<ActivateComment, script>> ELSE <<>>
            ELSE IF fs.activate
                 THEN <<ActivateComment, <<"source ">> \o p \o <<"/bin/activate">> >>
                 ELSE <<>>

\* variant: the variables taken last to first
EnvVarLinesReversed(env, plat) ==
    IF env.env_vars = <<>> THEN <<>>
    ELSE <<EnvVarsComment>> \o
         [i \in 1..Len(env.env_vars) |->
            LET kv == env.env_vars[Len(env.env_vars) + 1 - i]
            IN IF plat = "win32"
               THEN <<"set ">> \o kv[1] \o <<"=">> \o kv[2]
               ELSE <<"export ">> \o kv[1] \o <<"=\"">> \o kv[2] \o <<"\"">>]

\* one assignment line per variable, in the dict's insertion order
EnvVarLines(env, plat) ==
    IF env.env_vars = <<>> THEN <<>>
    ELSE <<EnvVarsComment>> \o
         [i \in 1..Len(env.env_vars) |->
            IF plat = "win32"
            THEN <<"set ">> \o env.env_vars[i][1] \o <<"=">> \o env.env_vars[i][2]
            ELSE <<"export ">> \o env.env_vars[i][1] \o <<"=\"">>
                   \o env.env_vars[i][2] \o <<"\"">>]

\* variant: the custom commands without their comment line
CustomLinesBare(env) == env.shell_commands

\* the custom-commands section
CustomLines(env) ==
    IF env.shell_commands = <<>> THEN <<>>
    ELSE <<CustomComment>> \o env.shell_commands

\* variant: the variables section ahead of the activation section
CommandsVarsFirst(env, plat, fs) ==
    << <<"cd ">> \o env.project_path >>
      \o EnvVarLines(env, plat)
      \o ActivateLines(env, plat, fs)
      \o CustomLines(env)

\* the list switch_environment returns
Commands(env, plat, fs) ==
    << <<"cd ">> \o env.project_path >>
      \o ActivateLines(env, plat, fs)
      \o EnvVarLines(env, plat)
      \o CustomLines(env)

\* the invocations of the program that may run side by side
Procs == {1, 2}

\* an invocation that is not running: no call, nothing loaded, no result
Idle ==
    [pc |-> "idle", op |-> "none", name |-> <<>>, data |-> <<>>, hist |-> <<>>,
     result |-> FALSE]

----------------------------------------------------------------------------
(* Initial state: a fresh home directory, or one where init_config has run *)

Init ==
    /\ envsFile \in {"missing", "ok"}
    /\ histFile \in {"missing", "ok"}
    /\ envs = <<>>
    /\ history = <<>>
    /\ clock = 0
    /\ platform \in {"win32", "linux"}
    /\ ret = [op |-> "start"]
    /\ logged = <<>>
    /\ uses = [k \in LowerNames |-> [n |-> 0, ts |-> None]]
    /\ everDeleted = FALSE
    /\ proc = [p \in Procs |-> Idle]

----------------------------------------------------------------------------
(* Operations.  Each one runs to completion; the files are readable and     *)
(* writable (storage failures are the actions of SpecFail below).           *)

Readable == envsFile # "corrupt"

\* init_config()
InitConfig ==
    /\ envsFile' = InitFile(envsFile)
    /\ histFile' = InitFile(histFile)
    /\ envs' = InitContent(envsFile, envs)
    /\ history' = InitContent(histFile, history)
    /\ ret' = [op |-> "init", value |-> TRUE]
    /\ UNCHANGED <<clock, platform, logged, uses>>

\* add_environment(name, project_path, ...), datetime.now() returning t
AddEnvironment(name, inp, t) ==
    /\ Readable
    /\ IF FindIndex(envs, name) # 0
       THEN /\ envsFile' = "ok"
            /\ histFile' = HistFileAfterLoad
            /\ ret' = [op |-> "add", name |-> name, value |-> FALSE]
            /\ UNCHANGED <<envs, history, clock, platform, logged, uses>>
       ELSE /\ envs' = Append(envs, NewEnvironment(name, inp, t))
            /\ envsFile' = "ok"
            /\ histFile' = HistFileAfterLoad
            /\ clock' = t
            /\ ret' = [op |-> "add", name |-> name, value |-> TRUE]
            /\ uses' = [uses EXCEPT ![Lower(name)] = [n |-> 0, ts |-> None]]
            /\ UNCHANGED <<history, platform, logged>>

\* get_environment(name)
GetEnvironment(name) ==
    /\ Readable
    /\ envsFile' = "ok"
    /\ histFile' = HistFileAfterLoad
    /\ ret' = [op |-> "get", name |-> name,
               value |-> IF FindIndex(envs, name) = 0 THEN None
                         ELSE Some(envs[FindIndex(envs, name)])]
    /\ UNCHANGED <<envs, history, clock, platform, logged, uses>>

\* delete_environment(name)
DeleteEnvironment(name) ==
    /\ Readable
    /\ envsFile' = "ok"
    /\ histFile' = HistFileAfterLoad
    /\ IF FindIndex(envs, name) # 0
       THEN /\ envs' = RemoveAt(envs, FindIndex(envs, name))
            /\ ret' = [op |-> "delete", name |-> name, value |-> TRUE]
            /\ uses' = [uses EXCEPT ![Lower(name)] = [n |-> 0, ts |-> None]]
            /\ everDeleted' = TRUE
       ELSE /\ envs' = envs
            /\ ret' = [op |-> "delete", name |-> name, value |-> FALSE]
            /\ uses' = uses
            /\ everDeleted' = everDeleted
    /\ UNCHANGED <<history, clock, platform, logged>>

\* log_switch(env_name), datetime.now() returning t
LogSwitch(name, t) ==
    /\ histFile # "corrupt"
    /\ histFile' = "ok"
    /\ envsFile' = IF histFile = "missing" THEN InitFile(envsFile) ELSE envsFile
    /\ history' = AppendSwitch(history, name, t)
    /\ logged' = Append(logged, [environment |-> name, timestamp |-> t])
    /\ clock' = t
    /\ ret' = [op |-> "log", name |-> name]
    /\ UNCHANGED <<envs, platform, uses>>

\* switch_environment(name): t1 is the datetime.now() of the usage update,
\* t2 the datetime.now() of log_switch, fs what the file system answers
SwitchEnvironment(name, t1, t2, fs) ==
    /\ Readable
    /\ IF FindIndex(envs, name) = 0
       THEN /\ envsFile' = "ok"
            /\ histFile' = HistFileAfterLoad
            /\ ret' = [op |-> "switch", name |-> name, value |-> None]
            /\ UNCHANGED <<envs, history, clock, platform, logged, uses>>
       ELSE /\ histFile # "corrupt"
            /\ envsFile' = "ok"
            /\ histFile' = "ok"
            /\ envs' = UpdateUsage(envs, name, t1)
            /\ history' = AppendSwitch(history, name, t2)
            /\ clock' = t2
            /\ ret' = [op |-> "switch", name |-> name, fs |-> fs,
                       value |-> Some(Commands(envs[FindIndex(envs, name)], platform, fs))]
            /\ logged' = Append(logged, [environment |-> name, timestamp |-> t2])
            /\ uses' = [uses EXCEPT ![Lower(name)] = [n |-> @.n + 1, ts |-> Some(t1)]]
            /\ UNCHANGED platform

\* list_environments(search)
ListEnvironments(search) ==
    /\ Readable
    /\ envsFile' = "ok"
    /\ histFile' = HistFileAfterLoad
    /\ ret' = [op |-> "list", search |-> search, value |-> ListFilter(envs, search)]
    /\ UNCHANGED <<envs, history, clock, platform, logged, uses>>

\* get_history(limit)
GetHistory(limit) ==
    /\ histFile # "corrupt"
    /\ ret' = [op |-> "history", limit |-> limit,
               value |-> IF histFile = "missing" THEN <<>> ELSE HistoryTail(history, limit)]
    /\ UNCHANGED <<envsFile, histFile, envs, history, clock, platform, logged, uses>>

----------------------------------------------------------------------------
(* One process calling the operations in any order *)

\* datetime.now(): an operation starts later than the previous one read the
\* clock; a second read inside the same call may return the same value again
FirstTick(c) == {c + 1}
SecondTick(t) == {t, t + 1}

\* one process at a time: no other invocation is in progress
Alone == UNCHANGED proc

DoInit == InitConfig /\ UNCHANGED everDeleted /\ Alone

DoAdd ==
    \E name \in Names, inp \in AddInputs, t \in FirstTick(clock) :
        /\ t <= MaxClock
        /\ AddEnvironment(name, inp, t)
        /\ UNCHANGED everDeleted
        /\ Alone

DoGet == \E name \in Names : GetEnvironment(name) /\ UNCHANGED everDeleted /\ Alone

DoDelete == \E name \in Names : DeleteEnvironment(name) /\ Alone

DoSwitch ==
    \E name \in Names, t1 \in FirstTick(clock), fs \in FsStates :
        \E t2 \in SecondTick(t1) :
            /\ t2 <= MaxClock
            /\ SwitchEnvironment(name, t1, t2, fs)
            /\ UNCHANGED everDeleted
            /\ Alone

DoHistory == \E limit \in 0..MaxLimit : GetHistory(limit) /\ UNCHANGED everDeleted /\ Alone

DoList == \E search \in Searches : ListEnvironments(search) /\ UNCHANGED everDeleted /\ Alone

Next ==
    \/ DoInit
    \/ DoAdd
    \/ DoGet
    \/ DoList
    \/ DoDelete
    \/ DoSwitch
    \/ DoHistory

Spec == Init /\ [][Next]_vars

----------------------------------------------------------------------------
(* A long run for the history cap: log_switch called directly and through   *)
(* switch_environment, on a schedule, every clock read later than the last. *)

HistInput == CHOOSE inp \in AddInputs : inp.python_env = None

HistFs == CHOOSE fs \in FsStates : ~fs.dir

HistAdd ==
    /\ envs = <<>>
    /\ AddEnvironment(<<"a", "b">>, HistInput, clock + 1)
    /\ UNCHANGED everDeleted
    /\ Alone

HistLog ==
    /\ envs # <<>>
    /\ Len(logged) < MaxLogged
    /\ Len(logged) % 3 = 0
    /\ LogSwitch(<<"b">>, clock + 1)
    /\ UNCHANGED everDeleted
    /\ Alone

HistSwitch ==
    /\ envs # <<>>
    /\ Len(logged) < MaxLogged
    /\ Len(logged) % 3 # 0
    /\ SwitchEnvironment(IF Len(logged) % 3 = 1 THEN <<"a", "b">> ELSE <<"A", "B">>,
                         clock + 1, clock + 2, HistFs)
    /\ UNCHANGED everDeleted
    /\ Alone

NextHist ==
    \/ HistAdd
    \/ HistLog
    \/ HistSwitch

SpecHist == Init /\ [][NextHist]_vars

----------------------------------------------------------------------------
(* A long run of add, delete and switch only: two profiles are switched to  *)
(* in turn, and one of them may be deleted and added again along the way.   *)

CountAdd ==
    /\ Len(envs) < 2
    /\ AddEnvironment(IF FindIndex(envs, <<"a", "b">>) = 0 THEN <<"a", "b">> ELSE <<"b">>,
                      HistInput, clock + 1)
    /\ UNCHANGED everDeleted
    /\ Alone

CountSwitch ==
    /\ Len(envs) = 2
    /\ Len(logged) < MaxLogged
    /\ SwitchEnvironment(CASE Len(logged) % 3 = 0 -> <<"a", "b">>
                            [] Len(logged) % 3 = 1 -> <<"b">>
                            [] OTHER -> <<"A", "B">>,
                         clock + 1, clock + 2, HistFs)
    /\ UNCHANGED everDeleted
    /\ Alone

CountDelete ==
    /\ Len(envs) = 2
    /\ Len(logged) % 60 = 5
    /\ envs[FindIndex(envs, <<"b">>)].use_count > 0
    /\ DeleteEnvironment(<<"b">>)
    /\ Alone

NextCount ==
    \/ CountAdd
    \/ CountSwitch
    \/ CountDelete

SpecCount == Init /\ [][NextCount]_vars

----------------------------------------------------------------------------
(* The switch-command generator on its own: one profile is added and then   *)
(* switched to once, under every answer of the file system.                 *)

PlanAdd ==
    /\ envs = <<>>
    /\ \E inp \in PlanInputs : AddEnvironment(Demo, inp, clock + 1)
    /\ UNCHANGED everDeleted
    /\ Alone

PlanSwitch ==
    /\ envs # <<>>
    /\ logged = <<>>
    /\ \E name \in PlanNames, fs \in PlanFsStates, t2 \in SecondTick(clock + 1) :
          SwitchEnvironment(name, clock + 1, t2, fs)
    /\ UNCHANGED everDeleted
    /\ Alone

NextPlan ==
    \/ PlanAdd
    \/ PlanSwitch

SpecPlan == Init /\ [][NextPlan]_vars

----------------------------------------------------------------------------
(* Two invocations of the program on the same files.  Each one is a         *)
(* sequence of whole-file reads and whole-file writes, and the other may    *)
(* run between any two of them: nothing locks the files.                    *)

RaceNames == { <<"a", "b">>, <<"b">> }

\* variant: the file read again and the own change merged into it
SavedMerged(data, current) ==
    current \o SelectSeq(data, LAMBDA e : FindIndex(current, e.name) = 0)

\* save_environments(data): the file becomes data, whatever it held
Saved(data, current) == data

\* add_environment, up to and including load_environments
RaceAddLoad(p, name) ==
    /\ proc[p].pc = "idle"
    /\ Readable
    /\ envsFile' = "ok"
    /\ histFile' = HistFileAfterLoad
    /\ proc' = [proc EXCEPT ![p] = [Idle EXCEPT !.pc = "add_loaded", !.op = "add",
                                                !.name = name, !.data = envs]]
    /\ UNCHANGED <<envs, history, clock, platform, ret, logged, uses, everDeleted>>

\* add_environment from the duplicate check to save_environments
RaceAddSave(p, t) ==
    /\ proc[p].pc = "add_loaded"
    /\ IF FindIndex(proc[p].data, proc[p].name) # 0
       THEN /\ proc' = [proc EXCEPT ![p] = [@ EXCEPT !.pc = "idle", !.result = FALSE]]
            /\ UNCHANGED <<envs, clock, uses>>
       ELSE /\ envs' = Saved(Append(proc[p].data,
                                    NewEnvironment(proc[p].name, HistInput, t)), envs)
            /\ clock' = t
            /\ uses' = [uses EXCEPT ![Lower(proc[p].name)] = [n |-> 0, ts |-> None]]
            /\ proc' = [proc EXCEPT ![p] = [@ EXCEPT !.pc = "idle", !.result = TRUE]]
    /\ UNCHANGED <<envsFile, histFile, history, platform, ret, logged, everDeleted>>

\* switch_environment: the get_environment call
RaceSwitchGet(p, name) ==
    /\ proc[p].pc = "idle"
    /\ Readable
    /\ envsFile' = "ok"
    /\ histFile' = HistFileAfterLoad
    /\ proc' = [proc EXCEPT ![p] =
                  IF FindIndex(envs, name) = 0
                  THEN [Idle EXCEPT !.op = "switch", !.name = name]
                  ELSE [Idle EXCEPT !.pc = "switch_found", !.op = "switch", !.name = name]]
    /\ UNCHANGED <<envs, history, clock, platform, ret, logged, uses, everDeleted>>

\* switch_environment: the second load_environments and the update in memory
RaceSwitchLoad(p, t) ==
    /\ proc[p].pc = "switch_found"
    /\ clock' = t
    /\ proc' = [proc EXCEPT ![p] = [@ EXCEPT !.pc = "switch_loaded",
                                             !.data = UpdateUsage(envs, proc[p].name, t)]]
    /\ UNCHANGED <<envsFile, histFile, envs, history, platform, ret, logged, uses,
                   everDeleted>>

\* switch_environment: save_environments
RaceSwitchSave(p) ==
    /\ proc[p].pc = "switch_loaded"
    /\ envs' = Saved(proc[p].data, envs)
    /\ proc' = [proc EXCEPT ![p] = [@ EXCEPT !.pc = "switch_saved"]]
    /\ UNCHANGED <<envsFile, histFile, history, clock, platform, ret, logged, uses,
                   everDeleted>>

\* log_switch: the history read and the entry appended in memory
RaceLogLoad(p, t) ==
    /\ proc[p].pc = "switch_saved"
    /\ clock' = t
    /\ proc' = [proc EXCEPT ![p] = [@ EXCEPT !.pc = "log_loaded",
                                             !.hist = AppendSwitch(history, proc[p].name, t)]]
    /\ UNCHANGED <<envsFile, histFile, envs, history, platform, ret, logged, uses,
                   everDeleted>>

\* log_switch: the history written; switch_environment returns its commands
RaceLogSave(p) ==
    /\ proc[p].pc = "log_loaded"
    /\ history' = proc[p].hist
    /\ logged' = Append(logged, proc[p].hist[Len(proc[p].hist)])
    /\ uses' = [uses EXCEPT ![Lower(proc[p].name)] = [@ EXCEPT !.n = @ + 1]]
    /\ proc' = [proc EXCEPT ![p] = [@ EXCEPT !.pc = "idle", !.result = TRUE]]
    /\ UNCHANGED <<envsFile, histFile, envs, clock, platform, ret, everDeleted>>

DoRaceAddLoad == \E p \in Procs, name \in RaceNames : RaceAddLoad(p, name)

DoRaceAddSave == \E p \in Procs : clock < MaxRaceClock /\ RaceAddSave(p, clock + 1)

DoRaceSwitchGet == \E p \in Procs, name \in RaceNames : RaceSwitchGet(p, name)

DoRaceSwitchLoad == \E p \in Procs : clock < MaxRaceClock /\ RaceSwitchLoad(p, clock + 1)

DoRaceSwitchSave == \E p \in Procs : RaceSwitchSave(p)

DoRaceLogLoad == \E p \in Procs : clock < MaxRaceClock /\ RaceLogLoad(p, clock + 1)

DoRaceLogSave == \E p \in Procs : RaceLogSave(p)

NextRace ==
    \/ DoRaceAddLoad
    \/ DoRaceAddSave
    \/ DoRaceSwitchGet
    \/ DoRaceSwitchLoad
    \/ DoRaceSwitchSave
    \/ DoRaceLogLoad
    \/ DoRaceLogSave

SpecRace == Init /\ [][NextRace]_vars

----------------------------------------------------------------------------
(* Storage failures: a write that raises leaves the old file or a truncated *)
(* one; a read of a truncated file raises.                                  *)

\* what Path.write_text leaves behind when it raises
FailedWrite == {"ok", "corrupt"}

\* add_environment aborted by save_environments raising
AddEnvironmentFails(name, left) ==
    /\ Readable
    /\ FindIndex(envs, name) = 0
    /\ envsFile' = left
    /\ envs' = IF left = "corrupt" THEN <<>> ELSE envs
    /\ histFile' = HistFileAfterLoad
    /\ ret' = [op |-> "add_raised", name |-> name]
    /\ UNCHANGED <<history, clock, platform, logged, uses, everDeleted, proc>>

\* delete_environment aborted by save_environments raising
DeleteEnvironmentFails(name, left) ==
    /\ Readable
    /\ FindIndex(envs, name) # 0
    /\ envsFile' = left
    /\ envs' = IF left = "corrupt" THEN <<>> ELSE envs
    /\ histFile' = HistFileAfterLoad
    /\ ret' = [op |-> "delete_raised", name |-> name]
    /\ UNCHANGED <<history, clock, platform, logged, uses, everDeleted, proc>>

\* switch_environment aborted at save_environments (step "save") or inside
\* log_switch after the usage update was saved (step "log")
SwitchEnvironmentFails(name, t1, step, left) ==
    /\ Readable
    /\ FindIndex(envs, name) # 0
    /\ ret' = [op |-> "switch_raised", name |-> name]
    /\ clock' = t1
    /\ IF step = "save"
       THEN /\ envsFile' = left
            /\ envs' = IF left = "corrupt" THEN <<>> ELSE envs
            /\ histFile' = HistFileAfterLoad
            /\ history' = history
       ELSE /\ envsFile' = "ok"
            /\ envs' = UpdateUsage(envs, name, t1)
            /\ histFile' = IF histFile = "corrupt" THEN "corrupt" ELSE left
            /\ history' = IF left = "corrupt" THEN <<>> ELSE history
    /\ UNCHANGED <<platform, logged, uses, everDeleted, proc>>

\* any operation that loads a truncated environments.json
LoadFails ==
    /\ envsFile = "corrupt"
    /\ ret' = [op |-> "load_raised"]
    /\ UNCHANGED <<envsFile, histFile, envs, history, clock, platform, logged, uses,
                   everDeleted, proc>>

DoAddFails ==
    \E name \in Names, left \in FailedWrite : AddEnvironmentFails(name, left)

DoDeleteFails ==
    \E name \in Names, left \in FailedWrite : DeleteEnvironmentFails(name, left)

DoSwitchFails ==
    \E name \in Names, t1 \in FirstTick(clock), step \in {"save", "log"}, left \in FailedWrite :
        /\ t1 <= MaxClock
        /\ SwitchEnvironmentFails(name, t1, step, left)

NextFail ==
    \/ DoInit
    \/ DoAdd
    \/ DoGet
    \/ DoDelete
    \/ DoSwitch
    \/ DoHistory
    \/ DoAddFails
    \/ DoDeleteFails
    \/ DoSwitchFails
    \/ LoadFails

SpecFail == Init /\ [][NextFail]_vars

----------------------------------------------------------------------------
(* Properties *)

Min(a, b) == IF a < b THEN a ELSE b

\* the positions of the stored profiles whose name equals name after lower-casing
Matches(es, name) == { i \in 1..Len(es) : Lower(es[i].name) = Lower(name) }

\* es without its i-th element
Without(es, i) == [j \in 1..(Len(es) - 1) |-> IF j < i THEN es[j] ELSE es[j + 1]]

\* C1: no two stored profiles have names that are equal after lower-casing.
C1_NamesUnique ==
    \A i, j \in 1..Len(envs) :
        i # j => Lower(envs[i].name) # Lower(envs[j].name)

\* two profiles are stored and an add under another spelling was just refused
C1_Witness ==
    /\ Len(envs) = 2
    /\ ret.op = "add"
    /\ ret.value = FALSE
    /\ \A i \in 1..Len(envs) : envs[i].name # ret.name

\* C2: add_environment with a name that equals a stored name after
\* lower-casing returns False and leaves the profiles and the history as they were.
C2_AddDuplicateRejected ==
    [][ (ret'.op = "add" /\ Matches(envs, ret'.name) # {})
          => (ret'.value = FALSE /\ envs' = envs /\ history' = history) ]_vars

\* a duplicate under another spelling was refused, with usage and history on record
C2_Witness ==
    /\ ret.op = "add"
    /\ ret.value = FALSE
    /\ \E i \in 1..Len(envs) :
          /\ Lower(envs[i].name) = Lower(ret.name)
          /\ envs[i].name # ret.name
          /\ envs[i].use_count > 0
    /\ history # <<>>

\* C3: a stored profile's use_count is the number of successful switches on it
\* since it was added, and its last_used is the time the last of them read
\* (null when there was none).
C3_UseCountIsSwitches ==
    \A i \in 1..Len(envs) :
        /\ envs[i].use_count = uses[Lower(envs[i].name)].n
        /\ envs[i].last_used = uses[Lower(envs[i].name)].ts

\* a profile switched to twice, last under another spelling, next to another profile
C3_Witness ==
    /\ Len(envs) = 2
    /\ ret.op = "switch"
    /\ ret.value # None
    /\ \E i \in 1..Len(envs) :
          /\ Lower(envs[i].name) = Lower(ret.name)
          /\ envs[i].name # ret.name
          /\ envs[i].use_count = 2

\* C4: the history holds at most 100 entries and is always the last 100 of
\* everything logged so far; after 150 logged switches it is the 51st to the
\* 150th entry, oldest first.
C4_HistoryIsLast100 ==
    /\ Len(history) <= 100
    /\ history = SubSeq(logged, (IF Len(logged) > 100 THEN Len(logged) - 100 ELSE 0) + 1,
                        Len(logged))
    /\ Len(logged) = 150 => history = SubSeq(logged, 51, 150)

\* 150 switches were logged and 100 entries remain
C4_Witness ==
    /\ Len(logged) = 150
    /\ Len(history) = 100

C6_SwitchUnknownNoChange ==
    [][ (ret'.op = "switch" /\ Matches(envs, ret'.name) = {})
          => (ret'.value = None /\ envs' = envs /\ history' = history) ]_vars

\* a switch to an unknown name returned None in a store with a profile and a history
C6_Witness ==
    /\ ret.op = "switch"
    /\ ret.value = None
    /\ envs # <<>>
    /\ history # <<>>

\* C7: get_history(limit) returns the last min(limit, length) entries of the
\* log, oldest first; a limit of 0 returns no entries.
C7_GetHistoryTail ==
    ret.op = "history"
      => ret.value = SubSeq(history, Len(history) - Min(ret.limit, Len(history)) + 1,
                            Len(history))

\* C8: the history entry a successful switch appends carries the timestamp
\* the same call wrote to the profile's last_used.
C8_SameTimestamp ==
    (ret.op = "switch" /\ ret.value # None)
      => history[Len(history)].timestamp = envs[FindIndex(envs, ret.name)].last_used[1]

\* C9: an aborted switch_environment leaves the files as they were before the
\* call or as a completed call leaves them, and never a truncated file.
C9_AllOrNothing ==
    [][ ret'.op = "switch_raised"
          => /\ envsFile' # "corrupt"
             /\ histFile' # "corrupt"
             /\ \/ (envs' = envs /\ history' = history)
                \/ (envs' # envs /\ history' # history) ]_vars

\* one character is the other, or its other case
SameLetter(c, d) ==
    \/ c = d
    \/ <<c, d>> \in { <<"a", "A">>, <<"A", "a">>, <<"b", "B">>, <<"B", "b">> }

\* v spells n, upper and lower case apart
CaseVariant(v, n) ==
    /\ Len(v) = Len(n)
    /\ \A i \in 1..Len(n) : SameLetter(v[i], n[i])

\* C10: get_environment called right after a successful add_environment, with
\* any case variant of the added name, returns the profile under the spelling
\* given to add_environment, with use_count 0 and last_used null.
C10_AddThenGet ==
    [][ (ret.op = "add" /\ ret.value = TRUE /\ ret'.op = "get"
            /\ CaseVariant(ret'.name, ret.name))
          => /\ ret'.value # None
             /\ ret'.value[1].name = ret.name
             /\ ret'.value[1].use_count = 0
             /\ ret'.value[1].last_used = None ]_vars

\* a get under another spelling returned a profile that was never switched to
C10_Witness ==
    /\ ret.op = "get"
    /\ ret.value # None
    /\ ret.value[1].name # ret.name
    /\ ret.value[1].name = <<"A", "B">>
    /\ ret.value[1].use_count = 0
    /\ ret.value[1].last_used = None

\* the k-th smallest element of a set of positions
Kth(S, k) == CHOOSE i \in S : Cardinality({ j \in S : j <= i }) = k

\* x occurs in s at some position
OccursIn(x, s) ==
    \E i \in 1..(Len(s) + 1) :
        /\ i + Len(x) - 1 <= Len(s)
        /\ \A k \in 1..Len(x) : s[i + k - 1] = x[k]

\* the stored positions list_environments has to return for a search string
Wanted(es, x) ==
    { i \in 1..Len(es) :
        \/ OccursIn(Lower(x), Lower(es[i].name))
        \/ OccursIn(Lower(x), Lower(es[i].description))
        \/ OccursIn(Lower(x), Lower(es[i].project_path)) }

\* C11: list_environments returns, in stored order, exactly the profiles whose
\* name, description or project path contains the search string, letter case
\* apart; with an empty or absent search string it returns all profiles.
C11_ListFilters ==
    ret.op = "list"
      => IF ret.search = None \/ ret.search = Some(<<>>)
         THEN ret.value = envs
         ELSE LET W == Wanted(envs, ret.search[1])
              IN /\ Len(ret.value) = Cardinality(W)
                 /\ \A k \in 1..Len(ret.value) : ret.value[k] = envs[Kth(W, k)]

\* an upper-case search kept the second of two stored profiles and dropped the first
C11_Witness ==
    /\ ret.op = "list"
    /\ ret.search = Some(<<"A">>)
    /\ Len(envs) = 2
    /\ ret.value = <<envs[2]>>

\* C12: init_config leaves an existing profile collection and an existing
\* history log as they are, in any state and however often it is called, and
\* creates an empty one only for a file that is missing.
C12_InitKeepsData ==
    [][ ret'.op = "init"
          => /\ envsFile # "missing" => (envsFile' = envsFile /\ envs' = envs)
             /\ histFile # "missing" => (histFile' = histFile /\ history' = history)
             /\ envsFile = "missing" => (envsFile' = "ok" /\ envs' = <<>>)
             /\ histFile = "missing" => (histFile' = "ok" /\ history' = <<>>) ]_vars

\* init_config has just run on a store that holds a used profile and a history
C12_Witness ==
    /\ ret.op = "init"
    /\ envs # <<>>
    /\ envs[1].use_count > 0
    /\ history # <<>>

\* the profile the last switch_environment call matched
Switched == envs[FindIndex(envs, ret.name)]

\* a switch_environment call has just returned a command list
Planned == ret.op = "switch" /\ ret.value # None

Comments == { ActivateComment, EnvVarsComment, CustomComment }

\* the number of lines a section of n entries takes, its comment included
SectionLen(n) == IF n = 0 THEN 0 ELSE 1 + n

\* C13: the command list is the directory change, then the activation section,
\* then the variables section, then the custom commands; a non-empty section
\* starts with its one comment line, an empty or absent one adds no line, and
\* the custom commands come verbatim in stored order.
C13_SectionsInOrder ==
    Planned =>
      LET c == ret.value[1]
          e == Switched
          v == SectionLen(Len(e.env_vars))
          m == SectionLen(Len(e.shell_commands))
          a == Len(c) - 1 - v - m
      IN /\ c[1] = <<"cd ">> \o e.project_path
         /\ a \in {0, 2}
         /\ (e.python_env = None \/ e.python_env = Some(<<>>)) => a = 0
         /\ a = 2 => (c[2] = ActivateComment /\ c[3] \notin Comments)
         /\ v > 0 => /\ c[1 + a + 1] = EnvVarsComment
                     /\ \A k \in 1..Len(e.env_vars) : c[1 + a + 1 + k] \notin Comments
         /\ m > 0 => /\ c[1 + a + v + 1] = CustomComment
                     /\ \A k \in 1..Len(e.shell_commands) :
                           c[1 + a + v + 1 + k] = e.shell_commands[k]

\* all three sections are present, with two variables and two custom commands
C13_Witness ==
    /\ Planned
    /\ Len(ret.value[1]) = 9
    /\ ret.value[1][2] = ActivateComment
    /\ Len(Switched.shell_commands) = 2

\* the activation script switch_environment looks for exists
ScriptThere ==
    IF platform = "win32" THEN ret.fs.bat \/ ret.fs.ps1 ELSE ret.fs.activate

\* a line that invokes an activation script
Invocation(line) ==
    \/ line[1] = "source "
    \/ line[Len(line)] \in { "\\Scripts\\activate.bat", "\\Scripts\\Activate.ps1",
                             "/bin/activate" }

\* C14: when the interpreter environment path or the platform's activation
\* script does not exist, no activation comment and no activation line is
\* emitted, and the other sections are returned as usual.
C14_NoActivationWithoutScript ==
    (Planned /\ (~ret.fs.dir \/ ~ScriptThere)) =>
      LET c == ret.value[1]
          e == Switched
      IN /\ \A k \in 1..Len(c) : c[k] # ActivateComment /\ ~Invocation(c[k])
         /\ Len(c) = 1 + SectionLen(Len(e.env_vars)) + SectionLen(Len(e.shell_commands))
         /\ c[1] = <<"cd ">> \o e.project_path

\* the directory exists, the script does not, and variables and commands are set
C14_Witness ==
    /\ Planned
    /\ Switched.python_env = Some(<<"/", "v">>)
    /\ ret.fs.dir
    /\ ~ScriptThere
    /\ Len(Switched.env_vars) = 2
    /\ Len(ret.value[1]) = 6

\* the positions of the assignment lines in a command list
Assignments(c) == { i \in 1..Len(c) : c[i][1] \in {"export ", "set "} }

\* C15: a profile with k variables gets exactly k assignment lines, one per
\* variable in stored order: export NAME="VALUE" off Windows, set NAME=VALUE
\* on Windows.
C15_OneLinePerVariable ==
    Planned =>
      LET c == ret.value[1]
          vs == Switched.env_vars
          A == Assignments(c)
      IN /\ Cardinality(A) = Len(vs)
         /\ \A j \in 1..Len(vs) :
               c[Kth(A, j)] =
                 IF platform = "win32"
                 THEN <<"set ">> \o vs[j][1] \o <<"=">> \o vs[j][2]
                 ELSE <<"export ">> \o vs[j][1] \o <<"=\"">> \o vs[j][2] \o <<"\"">>

\* two variables were exported on Windows after an activation section
C15_Witness ==
    /\ Planned
    /\ platform = "win32"
    /\ Len(Switched.env_vars) = 2
    /\ ret.value[1][2] = ActivateComment
    /\ Cardinality(Assignments(ret.value[1])) = 2

\* the example: "demo" at /tmp/demo with DEBUG=true and "echo hi", no
\* interpreter environment, switched to off Windows
DemoScenario ==
    /\ Planned
    /\ platform # "win32"
    /\ Switched.name = Demo
    /\ Switched.project_path = <<"/", "t", "m", "p", "/", "d", "e", "m", "o">>
    /\ Switched.python_env = None
    /\ Switched.env_vars = << <<(<<"D", "E", "B", "U", "G">>), (<<"t", "r", "u", "e">>)>> >>
    /\ Switched.shell_commands = << <<"e", "c", "h", "o", " ", "h", "i">> >>

DemoLines ==
    << <<"cd ", "/", "t", "m", "p", "/", "d", "e", "m", "o">>,
       EnvVarsComment,
       <<"export ", "D", "E", "B", "U", "G", "=\"", "t", "r", "u", "e", "\"">>,
       CustomComment,
       <<"e", "c", "h", "o", " ", "h", "i">> >>

\* C16 as stated: the example yields four lines, namely cd /tmp/demo, a
\* comment, export DEBUG="true", a comment, echo hi.
C16_FourLines ==
    DemoScenario => (Len(ret.value[1]) = 4 /\ ret.value[1] = DemoLines)

\* C16: the example yields five lines in order: cd /tmp/demo, a comment,
\* export DEBUG="true", a comment, echo hi.
C16_FiveLines ==
    DemoScenario => (Len(ret.value[1]) = 5 /\ ret.value[1] = DemoLines)

\* the example was switched to under the upper-case spelling of its name
C16_Witness ==
    /\ DemoScenario
    /\ ret.name = <<"D", "E", "M", "O">>

\* C17: a successful switch changes only last_used and use_count of the one
\* matched profile, every other field, every other profile and the order
\* staying as they were; and no step changes the created value of a profile
\* that is stored before and after it.
C17_SwitchTouchesUsageOnly ==
    [][ /\ (ret'.op = "switch" /\ ret'.value # None)
            => /\ Len(envs') = Len(envs)
               /\ \A i \in 1..Len(envs) :
                     IF i \in Matches(envs, ret'.name)
                     THEN envs'[i] = [envs[i] EXCEPT !.last_used = envs'[i].last_used,
                                                     !.use_count = envs'[i].use_count]
                     ELSE envs'[i] = envs[i]
        /\ \A i \in 1..Len(envs), j \in 1..Len(envs') :
              Lower(envs[i].name) = Lower(envs'[j].name)
                 => envs'[j].created = envs[i].created ]_vars

\* the second of two profiles was switched to twice, some time after it was created
C17_Witness ==
    /\ Planned
    /\ Len(envs) = 2
    /\ FindIndex(envs, ret.name) = 2
    /\ envs[2].use_count = 2
    /\ envs[2].last_used # Some(envs[2].created)
    /\ envs[1].use_count = 0

RECURSIVE SumUse(_)
\* the sum of use_count over a list of profiles
SumUse(es) == IF es = <<>> THEN 0 ELSE es[1].use_count + SumUse(Tail(es))

\* C19: with add, delete and switch only, the history holds min(100, number of
\* successful switches) entries; the use_counts of the stored profiles add up
\* to at most the number of successful switches, and to exactly that number
\* while nothing has been deleted; and a delete leaves the history as it was.
C19_CountsAgree ==
    /\ [](/\ Len(history) = Min(100, Len(logged))
          /\ SumUse(envs) <= Len(logged)
          /\ ~everDeleted => SumUse(envs) = Len(logged))
    /\ [][ret'.op = "delete" => history' = history]_vars

\* 150 switches after a delete: 100 entries are left and the counts fall short
C19_Witness ==
    /\ everDeleted
    /\ Len(logged) = 150
    /\ Len(history) = 100
    /\ Len(envs) = 2
    /\ SumUse(envs) < 150

\* C20: every stored profile has use_count >= 0, and its last_used is null
\* exactly when its use_count is 0.
C20_LastUsedIffUsed ==
    \A i \in 1..Len(envs) :
        /\ envs[i].use_count >= 0
        /\ (envs[i].last_used = None) <=> (envs[i].use_count = 0)

\* a profile never switched to is stored next to one that was switched to twice
C20_Witness ==
    /\ Len(envs) = 2
    /\ \E i, j \in 1..2 :
          /\ envs[i].use_count = 0
          /\ envs[i].last_used = None
          /\ envs[j].use_count = 2
          /\ envs[j].last_used # None

\* C18: nothing protects the files against a second invocation: a save writes
\* what its own invocation loaded plus its own change, whatever another
\* invocation has written in between, so an update can be lost.
C18_SaveOverwrites ==
    [][ \A p \in Procs :
          /\ (proc[p].pc = "add_loaded" /\ proc'[p].pc = "idle" /\ proc'[p].result)
                => /\ Len(envs') = Len(proc[p].data) + 1
                   /\ SubSeq(envs', 1, Len(proc[p].data)) = proc[p].data
                   /\ envs'[Len(envs')].name = proc[p].name
          /\ (proc[p].pc = "switch_loaded" /\ proc'[p].pc = "switch_saved")
                => envs' = proc[p].data ]_vars

\* two add_environment calls with different names both returned True and
\* one profile is stored
C18_Witness ==
    /\ \A p \in Procs : proc[p].pc = "idle" /\ proc[p].op = "add" /\ proc[p].result
    /\ proc[1].name # proc[2].name
    /\ Len(envs) = 1

\* two switches of one profile both returned and its use_count is 1
C18_LostSwitch ==
    /\ \A p \in Procs : proc[p].pc = "idle" /\ proc[p].op = "switch" /\ proc[p].result
    /\ proc[1].name = proc[2].name
    /\ uses[Lower(proc[1].name)].n = 2
    /\ \E i \in 1..Len(envs) :
          Lower(envs[i].name) = Lower(proc[1].name) /\ envs[i].use_count = 1

====
